---- MODULE Spec2Model ----
(***************************************************************************)
(* A model of lib/convert.py: the format handlers (PyConverter,            *)
(* CsvConverter, JsonConverter, YamlConverter), the extension registry     *)
(* (ConvertInput.get_converter) and the orchestrator                       *)
(* (ConvertInput.do_conversion).                                           *)
(*                                                                         *)
(* Text is a sequence of characters, each character a TLA+ string.  The    *)
(* characters that TLA+ would need an escape for carry a name: LF, CR, DQ  *)
(* (double quote), SQ (single quote), BS (backslash).                      *)
(*                                                                         *)
(* Python objects are tagged records:                                      *)
(*   [t |-> "str",  s |-> text]        a str                               *)
(*   [t |-> "None"]                    None                                *)
(*   [t |-> "list", l |-> <<v, ...>>]  a list                              *)
(*   [t |-> "dict", d |-> <<<<k, v>>, ...>>]  a dict, in insertion order   *)
(* A call's outcome is [ok |-> TRUE, val |-> v] (it returned v) or         *)
(* [ok |-> FALSE, exc |-> [type |-> class name, msg |-> text]] (it raised).*)
(***************************************************************************)
EXTENDS Integers, Sequences, FiniteSets, TLC

VARIABLES
    fs,             \* the file system: path -> content (text) or NoFile
    pc,             \* position of the running call
    script,         \* the calls still to be made: <<<<input_file, output_file>>, ...>>
    input_file,     \* do_conversion's argument (get_converter's filename in SpecResolve)
    output_file,    \* do_conversion's argument
    deserialise,    \* local of do_conversion: the input handler's class
    serialise,      \* local of do_conversion: the output handler's class
    input_string,   \* local of do_conversion
    data,           \* local of do_conversion
    output_string,  \* local of do_conversion
    handles,        \* the file handles that are open: subset of {"in", "out"}
    result,         \* outcome of the last call, NoResult while none has ended
    raised_at,      \* ghost: the statement the call's exception left from
    fs0,            \* ghost: the file system when the running call started
    log             \* ghost: the file operations the running call has made

vars == <<fs, pc, script, input_file, output_file, deserialise, serialise,
          input_string, data, output_string, handles, result, raised_at, fs0, log>>

\* ------------------------------------------------------------------ bounds

\* Most rows of a generated Record.
MaxRows == 2

\* Most characters cut from the end of a generated file (0: the file is whole).
MaxCut == 1

\* Most dots put in front of a generated file name's stem.
MaxLeadingDots == 1

\* --------------------------------------------------------------- characters

LF == "LF"
CR == "CR"
DQ == "DQ"
SQ == "SQ"
BS == "BS"

NoFile == "NoFile"
NoResult == "NoResult"
Unset == "Unset"

\* A local that holds no text or path yet, and one that holds no object yet.
NoText == <<"Unset">>
NoData == [t |-> "unset"]

\* ------------------------------------------------------------ Python values

Str(s) == [t |-> "str", s |-> s]
None == [t |-> "None"]
List(l) == [t |-> "list", l |-> l]
Dict(d) == [t |-> "dict", d |-> d]

IsStr(v) == v.t = "str"
IsList(v) == v.t = "list"
IsDict(v) == v.t = "dict"

Ok(v) == [ok |-> TRUE, val |-> v]
Raise(type, msg) == [ok |-> FALSE, exc |-> [type |-> type, msg |-> msg]]

\* The keys of a dict, in insertion order.
Keys(v) == [i \in 1..Len(v.d) |-> v.d[i][1]]

HasKey(v, k) == \E i \in 1..Len(v.d) : v.d[i][1] = k

\* dict[k], for a key the dict has.
Get(v, k) == v.d[CHOOSE i \in 1..Len(v.d) : v.d[i][1] = k][2]

\* dict[k] = x: a new key goes last, an old key keeps its place.
Put(v, k, x) ==
    IF HasKey(v, k)
    THEN Dict([i \in 1..Len(v.d) |-> IF v.d[i][1] = k THEN <<k, x>> ELSE v.d[i]])
    ELSE Dict(Append(v.d, <<k, x>>))

\* ------------------------------------------------------------ text helpers

Range(s) == {s[i] : i \in 1..Len(s)}

\* s[from..], 1-based; empty when from > Len(s).
Drop(s, n) == SubSeq(s, n + 1, Len(s))
Take(s, n) == SubSeq(s, 1, n)

EndsWith(s, suffix) ==
    /\ Len(suffix) <= Len(s)
    /\ Drop(s, Len(s) - Len(suffix)) = suffix

\* str.rfind(c): the last index of c in s, 0 when there is none.
RFind(s, c) ==
    LET hits == {i \in 1..Len(s) : s[i] = c}
    IN  IF hits = {} THEN 0 ELSE CHOOSE i \in hits : \A j \in hits : j <= i

\* --------------------------------------------------------------- registry

Ext_py == <<".", "p", "y">>
Ext_csv == <<".", "c", "s", "v">>
Ext_json == <<".", "j", "s", "o", "n">>
Ext_yaml == <<".", "y", "a", "m", "l">>
Ext_yml == <<".", "y", "m", "l">>

\* The registry with the YAML handler registered, which the code does not do.
converter_type_map_with_yaml ==
    (Ext_py :> "PyConverter") @@ (Ext_csv :> "CsvConverter")
        @@ (Ext_json :> "JsonConverter")
        @@ (Ext_yaml :> "YamlConverter") @@ (Ext_yml :> "YamlConverter")

\* ConvertInput.__init__: self.converter_type_map.
converter_type_map ==
    (Ext_py :> "PyConverter") @@ (Ext_csv :> "CsvConverter")
        @@ (Ext_json :> "JsonConverter")

\* ConvertInput.get_supported_extensions(): the keys of the mapping.
get_supported_extensions == DOMAIN converter_type_map

\* os.path.splitext(p)[1] (posixpath): the text from the last dot on, when that
\* dot comes after the last "/" and some character between that "/" and the dot
\* is not a dot; the empty text otherwise.
splitext_ext(p) ==
    LET sepIndex == RFind(p, "/")
        dotIndex == RFind(p, ".")
    IN  IF /\ dotIndex > sepIndex
           /\ \E i \in (sepIndex + 1)..(dotIndex - 1) : p[i] # "."
        THEN Drop(p, dotIndex - 1)
        ELSE <<>>

UnrecognisedMsg(filename) == <<"Unrecognised file type: ">> \o filename

\* get_converter without its try/except: the KeyError of the lookup escapes.
get_converter_no_except(filename) ==
    LET file_ext == splitext_ext(filename)
    IN  IF file_ext \in DOMAIN converter_type_map
        THEN Ok(converter_type_map[file_ext])
        ELSE Raise("KeyError", file_ext)

\* ConvertInput.get_converter(filename).
get_converter(filename) ==
    LET file_ext == splitext_ext(filename)
    IN  IF file_ext \in DOMAIN converter_type_map
        THEN Ok(converter_type_map[file_ext])
        ELSE Raise("Exception", UnrecognisedMsg(filename))

\* ------------------------------------------------------------ PyConverter

\* The characters of a Python keyword or message.
Word_None == <<"N", "o", "n", "e">>
Word_null == <<"n", "u", "l", "l">>

\* repr() of one character inside a str literal quoted with q.
py_repr_char(c, q) ==
    CASE c = BS -> <<BS, BS>>
      [] c = LF -> <<BS, "n">>
      [] c = CR -> <<BS, "r">>
      [] c = q  -> <<BS, q>>
      [] OTHER  -> <<c>>

RECURSIVE py_repr_chars(_, _)
py_repr_chars(s, q) ==
    IF s = <<>> THEN <<>>
    ELSE py_repr_char(Head(s), q) \o py_repr_chars(Tail(s), q)

\* repr(str): double quotes when the text holds a single quote and no double
\* quote, single quotes otherwise.
py_repr_str(s) ==
    LET q == IF SQ \in Range(s) /\ DQ \notin Range(s) THEN DQ ELSE SQ
    IN  <<q>> \o py_repr_chars(s, q) \o <<q>>

RECURSIVE py_repr(_)
RECURSIVE py_repr_list(_, _)
RECURSIVE py_repr_items(_, _)

\* ", ".join(repr(x) for x in l[i:])
py_repr_list(l, i) ==
    IF i > Len(l) THEN <<>>
    ELSE (IF i > 1 THEN <<",", " ">> ELSE <<>>) \o py_repr(l[i]) \o py_repr_list(l, i + 1)

\* ", ".join(repr(k) + ": " + repr(v) for k, v in d.items())
py_repr_items(d, i) ==
    IF i > Len(d) THEN <<>>
    ELSE (IF i > 1 THEN <<",", " ">> ELSE <<>>)
            \o py_repr(d[i][1]) \o <<":", " ">> \o py_repr(d[i][2])
            \o py_repr_items(d, i + 1)

\* repr(v)
py_repr(v) ==
    CASE v.t = "str"  -> py_repr_str(v.s)
      [] v.t = "None" -> Word_None
      [] v.t = "list" -> <<"[">> \o py_repr_list(v.l, 1) \o <<"]">>
      [] v.t = "dict" -> <<"{">> \o py_repr_items(v.d, 1) \o <<"}">>

\* PyConverter.serialise(d): repr(d), which never raises.
PySerialise(d) == Ok(py_repr(d))

\* ------------------------------------------------------------ CsvConverter

EOL == "EOL"

\* str.splitlines(): lines end at LF, CR or CR LF; the terminators are dropped
\* and no empty last line is made.
RECURSIVE splitlines_from(_, _, _, _)
splitlines_from(s, i, cur, out) ==
    IF i > Len(s) THEN (IF cur # <<>> THEN Append(out, cur) ELSE out)
    ELSE IF s[i] = CR /\ i < Len(s) /\ s[i + 1] = LF
         THEN splitlines_from(s, i + 2, <<>>, Append(out, cur))
    ELSE IF s[i] \in {LF, CR}
         THEN splitlines_from(s, i + 1, <<>>, Append(out, cur))
    ELSE splitlines_from(s, i + 1, Append(cur, s[i]), out)

splitlines(s) == splitlines_from(s, 1, <<>>, <<>>)

\* The csv reader's state at the start of a record.
parse_reset == [state |-> "START_RECORD", field |-> <<>>, fields |-> <<>>]

\* _csv.c parse_process_char under the excel dialect (delimiter ",", quotechar
\* DQ, doublequote, no escapechar, not strict).  c is a character of a line, or
\* EOL at the line's end; a line made by splitlines holds no LF and no CR.
parse_process_char(st, c) ==
    LET save == [st EXCEPT !.fields = Append(@, st.field), !.field = <<>>]
        add  == [st EXCEPT !.field = Append(@, c)]
    IN  CASE st.state = "START_RECORD" /\ c = EOL -> st
          [] st.state \in {"START_RECORD", "START_FIELD"} /\ ~(st.state = "START_RECORD" /\ c = EOL) ->
                IF c = EOL THEN [save EXCEPT !.state = "START_RECORD"]
                ELSE IF c = DQ THEN [st EXCEPT !.state = "IN_QUOTED_FIELD"]
                ELSE IF c = "," THEN [save EXCEPT !.state = "START_FIELD"]
                ELSE [add EXCEPT !.state = "IN_FIELD"]
          [] st.state = "IN_FIELD" ->
                IF c = EOL THEN [save EXCEPT !.state = "START_RECORD"]
                ELSE IF c = "," THEN [save EXCEPT !.state = "START_FIELD"]
                ELSE add
          [] st.state = "IN_QUOTED_FIELD" ->
                IF c = EOL THEN st
                ELSE IF c = DQ THEN [st EXCEPT !.state = "QUOTE_IN_QUOTED_FIELD"]
                ELSE add
          [] st.state = "QUOTE_IN_QUOTED_FIELD" ->
                IF c = DQ THEN [add EXCEPT !.state = "IN_QUOTED_FIELD"]
                ELSE IF c = "," THEN [save EXCEPT !.state = "START_FIELD"]
                ELSE IF c = EOL THEN [save EXCEPT !.state = "START_RECORD"]
                ELSE [add EXCEPT !.state = "IN_FIELD"]

RECURSIVE csv_chars(_, _, _)
csv_chars(line, i, st) ==
    IF i > Len(line) THEN st
    ELSE csv_chars(line, i + 1, parse_process_char(st, line[i]))

\* list(csv.reader(lines)): Reader_iternext feeds a line's characters and then
\* EOL, and takes the next line while the record is not complete; at the end of
\* the input an unfinished record is returned as it stands.
RECURSIVE csv_reader(_, _, _, _)
csv_reader(lines, k, st, rows) ==
    IF k > Len(lines)
    THEN IF Len(st.field) # 0 \/ st.state = "IN_QUOTED_FIELD"
         THEN Append(rows, Append(st.fields, st.field))
         ELSE rows
    ELSE LET st2 == parse_process_char(csv_chars(lines[k], 1, st), EOL)
         IN  IF st2.state = "START_RECORD"
             THEN csv_reader(lines, k + 1, parse_reset, Append(rows, st2.fields))
             ELSE csv_reader(lines, k + 1, st2, rows)

\* dict(zip(fieldnames, row)), then restkey None / restval None.
RECURSIVE dict_zip(_, _, _, _)
dict_zip(fieldnames, row, i, d) ==
    IF i > Len(fieldnames) \/ i > Len(row) THEN d
    ELSE dict_zip(fieldnames, row, i + 1, Put(d, Str(fieldnames[i]), Str(row[i])))

RECURSIVE dict_restval(_, _, _)
dict_restval(fieldnames, i, d) ==
    IF i > Len(fieldnames) THEN d
    ELSE dict_restval(fieldnames, i + 1, Put(d, Str(fieldnames[i]), None))

\* csv.DictReader.__next__ for one row of the reader.
DictReader_row(fieldnames, row) ==
    LET d  == dict_zip(fieldnames, row, 1, Dict(<<>>))
        lf == Len(fieldnames)
        lr == Len(row)
    IN  IF lf < lr
        THEN Put(d, None, List([i \in 1..(lr - lf) |-> Str(row[lf + i])]))
        ELSE IF lf > lr THEN dict_restval(fieldnames, lr + 1, d)
        ELSE d

\* list(csv.DictReader(lines)): the first row of the reader is the header, rows
\* without fields are skipped.
DictReader_list(lines) ==
    LET rows == csv_reader(lines, 1, parse_reset, <<>>)
    IN  IF rows = <<>> THEN <<>>
        ELSE LET fieldnames == rows[1]
                 body == SelectSeq(Tail(rows), LAMBDA r : r # <<>>)
             IN  [i \in 1..Len(body) |-> DictReader_row(fieldnames, body[i])]

\* CsvConverter.deserialise(s), which raises on no text of the model's alphabet.
CsvDeserialise(s) == Ok(List(DictReader_list(splitlines(s))))

\* The text csv.writer writes for one field: str as it is, None as the empty
\* text, any other object by str().
csv_field_text(v) ==
    CASE v.t = "str"  -> v.s
      [] v.t = "None" -> <<>>
      [] OTHER        -> py_repr(v)

RECURSIVE csv_double_quotes(_)
csv_double_quotes(s) ==
    IF s = <<>> THEN <<>>
    ELSE (IF Head(s) = DQ THEN <<DQ, DQ>> ELSE <<Head(s)>>) \o csv_double_quotes(Tail(s))

\* _csv.c join_append_data under QUOTE_MINIMAL: a field holding the delimiter,
\* the quote character or a character of the line terminator is quoted, its
\* quote characters doubled.
csv_join_field(s) ==
    IF Range(s) \cap {",", DQ, CR, LF} # {}
    THEN <<DQ>> \o csv_double_quotes(s) \o <<DQ>>
    ELSE s

RECURSIVE csv_join(_, _)
csv_join(fields, i) ==
    IF i > Len(fields) THEN <<>>
    ELSE (IF i > 1 THEN <<",">> ELSE <<>>) \o csv_join_field(fields[i]) \o csv_join(fields, i + 1)

\* csv.writer.writerow: the fields joined by the delimiter, a lone empty field
\* written as two quote characters, then the line terminator CR LF.
csv_writerow(fields) ==
    LET rec == csv_join(fields, 1)
    IN  (IF Len(fields) > 0 /\ rec = <<>> THEN <<DQ, DQ>> ELSE rec) \o <<CR, LF>>

\* DictWriter._dict_to_list(rowdict) under extrasaction="raise", restval="".
dict_to_list(fieldnames, rowdict) ==
    IF \E i \in 1..Len(rowdict.d) : rowdict.d[i][1] \notin Range(fieldnames)
    THEN Raise("ValueError", <<"dict contains fields not in fieldnames">>)
    ELSE Ok([i \in 1..Len(fieldnames) |->
                IF HasKey(rowdict, fieldnames[i])
                THEN csv_field_text(Get(rowdict, fieldnames[i]))
                ELSE <<>>])

\* DictWriter.writerows(d): the rows in order; the first row that raises ends it.
RECURSIVE writerows(_, _, _, _)
writerows(fieldnames, d, i, out) ==
    IF i > Len(d) THEN Ok(out)
    ELSE IF ~IsDict(d[i]) THEN Raise("AttributeError", <<"keys">>)
    ELSE LET r == dict_to_list(fieldnames, d[i])
         IN  IF r.ok THEN writerows(fieldnames, d, i + 1, out \o csv_writerow(r.val))
             ELSE r

\* DictWriter(output, fieldnames=d[0].keys()), writeheader() and writerows(d)
\* for a list d whose first element is a dict.
csv_write(d) ==
    LET fieldnames == Keys(d.l[1])
        header == csv_writerow([i \in 1..Len(fieldnames) |->
                                   csv_field_text(fieldnames[i])])
    IN  writerows(fieldnames, d.l, 1, header)

\* A serialise that writes no text for a Record without rows, where d[0]
\* raises in the code.
CsvSerialise_empty_text(d) ==
    IF IsList(d) /\ d.l = <<>> THEN Ok(<<>>)
    ELSE IF ~IsList(d) \/ ~IsDict(d.l[1]) THEN Raise("TypeError", <<>>)
    ELSE csv_write(d)

\* CsvConverter.serialise(d): d[0] raises when d has no first element, and
\* .keys() when that element is no dict.
CsvSerialise(d) ==
    IF IsList(d) /\ d.l = <<>> THEN Raise("IndexError", <<"list index out of range">>)
    ELSE IF IsDict(d) THEN Raise("KeyError", <<"0">>)
    ELSE IF IsStr(d) /\ d.s = <<>> THEN Raise("IndexError", <<"string index out of range">>)
    ELSE IF IsStr(d) THEN Raise("AttributeError", <<"keys">>)
    ELSE IF ~IsList(d) THEN Raise("TypeError", <<"not subscriptable">>)
    ELSE IF ~IsDict(d.l[1]) THEN Raise("AttributeError", <<"keys">>)
    ELSE csv_write(d)

\* ------------------------------------------------------------ JsonConverter

\* json.encoder: the escape of one character of a str (ensure_ascii).
json_escape_char(c) ==
    CASE c = DQ -> <<BS, DQ>>
      [] c = BS -> <<BS, BS>>
      [] c = LF -> <<BS, "n">>
      [] c = CR -> <<BS, "r">>
      [] OTHER  -> <<c>>

RECURSIVE json_escape(_)
json_escape(s) ==
    IF s = <<>> THEN <<>>
    ELSE json_escape_char(Head(s)) \o json_escape(Tail(s))

json_dumps_str(s) == <<DQ>> \o json_escape(s) \o <<DQ>>

\* A dict key as json.dumps writes it: a str as it is, None as "null".
json_dumps_key(k) ==
    IF k.t = "None" THEN json_dumps_str(Word_null) ELSE json_dumps_str(k.s)

RECURSIVE json_dumps(_)
RECURSIVE json_dumps_list(_, _)
RECURSIVE json_dumps_items(_, _)

json_dumps_list(l, i) ==
    IF i > Len(l) THEN <<>>
    ELSE (IF i > 1 THEN <<",", " ">> ELSE <<>>)
            \o json_dumps(l[i]) \o json_dumps_list(l, i + 1)

json_dumps_items(d, i) ==
    IF i > Len(d) THEN <<>>
    ELSE (IF i > 1 THEN <<",", " ">> ELSE <<>>)
            \o json_dumps_key(d[i][1]) \o <<":", " ">> \o json_dumps(d[i][2])
            \o json_dumps_items(d, i + 1)

\* json.dumps(v) with the default separators ", " and ": ".
json_dumps(v) ==
    CASE v.t = "str"  -> json_dumps_str(v.s)
      [] v.t = "None" -> Word_null
      [] v.t = "list" -> <<"[">> \o json_dumps_list(v.l, 1) \o <<"]">>
      [] v.t = "dict" -> <<"{">> \o json_dumps_items(v.d, 1) \o <<"}">>

\* JsonConverter.serialise(d), which raises on no value of the model.
JsonSerialise(d) == Ok(json_dumps(d))

\* A parser's outcome: the value and the index after it, or a failure.
Parsed(v, end) == [ok |-> TRUE, val |-> v, end |-> end]
ParseFail(msg) == [ok |-> FALSE, msg |-> msg]

At(s, i) == IF i >= 1 /\ i <= Len(s) THEN s[i] ELSE "EOF"

\* json.decoder WHITESPACE.match(s, i).end()
RECURSIVE json_ws(_, _)
json_ws(s, i) ==
    IF At(s, i) \in {" ", LF, CR} THEN json_ws(s, i + 1) ELSE i

\* json.decoder.py_scanstring from the character after the opening quote
\* (strict).  The escapes b, f, t and u name characters outside the model's
\* alphabet; no text of the model holds them.
RECURSIVE json_scanstring(_, _, _)
json_scanstring(s, i, acc) ==
    LET c == At(s, i)
        e == At(s, i + 1)
    IN  IF c = "EOF" THEN ParseFail(<<"Unterminated string">>)
        ELSE IF c = DQ THEN Parsed(acc, i + 1)
        ELSE IF c \in {LF, CR} THEN ParseFail(<<"Invalid control character">>)
        ELSE IF c # BS THEN json_scanstring(s, i + 1, Append(acc, c))
        ELSE IF e = "EOF" THEN ParseFail(<<"Unterminated string">>)
        ELSE IF e \in {DQ, BS, "/"} THEN json_scanstring(s, i + 2, Append(acc, e))
        ELSE IF e = "n" THEN json_scanstring(s, i + 2, Append(acc, LF))
        ELSE IF e = "r" THEN json_scanstring(s, i + 2, Append(acc, CR))
        ELSE ParseFail(<<"Invalid \\escape">>)

RECURSIVE json_value(_, _)
RECURSIVE json_array(_, _, _)
RECURSIVE json_object(_, _, _)

\* json.scanner.py_make_scanner _scan_once(s, i): a string, an object, an
\* array or null (the model's alphabet has no number, true or false).
json_value(s, i) ==
    LET c == At(s, i)
    IN  IF c = DQ
        THEN LET r == json_scanstring(s, i + 1, <<>>)
             IN  IF r.ok THEN Parsed(Str(r.val), r.end) ELSE r
        ELSE IF c = "{" THEN
            LET j == json_ws(s, i + 1)
            IN  IF At(s, j) = "}" THEN Parsed(Dict(<<>>), j + 1)
                ELSE json_object(s, j, Dict(<<>>))
        ELSE IF c = "[" THEN
            LET j == json_ws(s, i + 1)
            IN  IF At(s, j) = "]" THEN Parsed(List(<<>>), j + 1)
                ELSE json_array(s, j, <<>>)
        ELSE IF i + 3 <= Len(s) /\ SubSeq(s, i, i + 3) = Word_null
        THEN Parsed(None, i + 4)
        ELSE ParseFail(<<"Expecting value">>)

\* json.decoder.JSONArray from the first character of an element.
json_array(s, i, acc) ==
    LET r == json_value(s, i)
    IN  IF ~r.ok THEN r
        ELSE LET j == json_ws(s, r.end)
                 l == Append(acc, r.val)
             IN  IF At(s, j) = "]" THEN Parsed(List(l), j + 1)
                 ELSE IF At(s, j) = "," THEN json_array(s, json_ws(s, j + 1), l)
                 ELSE ParseFail(<<"Expecting ',' delimiter">>)

\* json.decoder.JSONObject from the first character of a pair; a key met
\* again takes the new value.
json_object(s, i, acc) ==
    IF At(s, i) # DQ
    THEN ParseFail(<<"Expecting property name enclosed in double quotes">>)
    ELSE LET k == json_scanstring(s, i + 1, <<>>)
         IN  IF ~k.ok THEN k
             ELSE LET c == json_ws(s, k.end)
                  IN  IF At(s, c) # ":" THEN ParseFail(<<"Expecting ':' delimiter">>)
                      ELSE LET v == json_value(s, json_ws(s, c + 1))
                           IN  IF ~v.ok THEN v
                               ELSE LET j == json_ws(s, v.end)
                                        d == Put(acc, Str(k.val), v.val)
                                    IN  IF At(s, j) = "}" THEN Parsed(d, j + 1)
                                        ELSE IF At(s, j) = ","
                                        THEN json_object(s, json_ws(s, j + 1), d)
                                        ELSE ParseFail(<<"Expecting ',' delimiter">>)

\* json.loads(s): one value, white space around it, nothing else.
json_loads(s) ==
    LET r == json_value(s, json_ws(s, 1))
    IN  IF ~r.ok THEN Raise("JSONDecodeError", r.msg)
        ELSE IF json_ws(s, r.end) <= Len(s) THEN Raise("JSONDecodeError", <<"Extra data">>)
        ELSE Ok(r.val)

\* JsonConverter.deserialise(s).
JsonDeserialise(s) == json_loads(s)

\* ------------------------------------------- PyConverter.deserialise

\* White space between the tokens of a bracketed Python expression.
RECURSIVE py_ws(_, _)
py_ws(s, i) ==
    IF At(s, i) \in {" ", LF, CR} THEN py_ws(s, i + 1) ELSE i

\* A str literal from the character after its opening quote q: the escapes
\* repr() writes are undone; a line break inside the literal is a SyntaxError.
RECURSIVE py_scanstring(_, _, _, _)
py_scanstring(s, i, q, acc) ==
    LET c == At(s, i)
        e == At(s, i + 1)
    IN  IF c = "EOF" \/ c \in {LF, CR} THEN ParseFail(<<"unterminated string literal">>)
        ELSE IF c = q THEN Parsed(acc, i + 1)
        ELSE IF c # BS THEN py_scanstring(s, i + 1, q, Append(acc, c))
        ELSE IF e = "EOF" THEN ParseFail(<<"unterminated string literal">>)
        ELSE IF e \in {DQ, SQ, BS} THEN py_scanstring(s, i + 2, q, Append(acc, e))
        ELSE IF e = "n" THEN py_scanstring(s, i + 2, q, Append(acc, LF))
        ELSE IF e = "r" THEN py_scanstring(s, i + 2, q, Append(acc, CR))
        ELSE IF e \in {LF, CR} THEN py_scanstring(s, i + 2, q, acc)
        ELSE py_scanstring(s, i + 2, q, acc \o <<BS, e>>)

RECURSIVE py_value(_, _)
RECURSIVE py_list(_, _, _)
RECURSIVE py_dict(_, _, _)

\* One literal: a str, a list display, a dict display or None.  Any other
\* token (a name, a number, a tuple) is outside the texts of the model.
py_value(s, i) ==
    LET c == At(s, i)
    IN  IF c \in {SQ, DQ}
        THEN LET r == py_scanstring(s, i + 1, c, <<>>)
             IN  IF r.ok THEN Parsed(Str(r.val), r.end) ELSE r
        ELSE IF c = "{" THEN
            LET j == py_ws(s, i + 1)
            IN  IF At(s, j) = "}" THEN Parsed(Dict(<<>>), j + 1)
                ELSE py_dict(s, j, Dict(<<>>))
        ELSE IF c = "[" THEN
            LET j == py_ws(s, i + 1)
            IN  IF At(s, j) = "]" THEN Parsed(List(<<>>), j + 1)
                ELSE py_list(s, j, <<>>)
        ELSE IF i + 3 <= Len(s) /\ SubSeq(s, i, i + 3) = Word_None
        THEN Parsed(None, i + 4)
        ELSE ParseFail(<<"invalid syntax">>)

\* The elements of a list display; a comma may follow the last one.
py_list(s, i, acc) ==
    LET r == py_value(s, i)
    IN  IF ~r.ok THEN r
        ELSE LET j == py_ws(s, r.end)
                 l == Append(acc, r.val)
                 n == py_ws(s, j + 1)
             IN  IF At(s, j) = "]" THEN Parsed(List(l), j + 1)
                 ELSE IF At(s, j) # "," THEN ParseFail(<<"invalid syntax">>)
                 ELSE IF At(s, n) = "]" THEN Parsed(List(l), n + 1)
                 ELSE py_list(s, n, l)

\* The pairs of a dict display; a key met again takes the new value, and a
\* key that is a list or a dict is unhashable.
py_dict(s, i, acc) ==
    LET k == py_value(s, i)
    IN  IF ~k.ok THEN k
        ELSE IF k.val.t \in {"list", "dict"} THEN ParseFail(<<"unhashable type">>)
        ELSE LET c == py_ws(s, k.end)
             IN  IF At(s, c) # ":" THEN ParseFail(<<"invalid syntax">>)
                 ELSE LET v == py_value(s, py_ws(s, c + 1))
                      IN  IF ~v.ok THEN v
                          ELSE LET j == py_ws(s, v.end)
                                   d == Put(acc, k.val, v.val)
                                   n == py_ws(s, j + 1)
                               IN  IF At(s, j) = "}" THEN Parsed(d, j + 1)
                                   ELSE IF At(s, j) # "," THEN ParseFail(<<"invalid syntax">>)
                                   ELSE IF At(s, n) = "}" THEN Parsed(d, n + 1)
                                   ELSE py_dict(s, n, d)

\* str.lstrip(" \t") of ast.literal_eval.
RECURSIVE py_lstrip(_, _)
py_lstrip(s, i) == IF At(s, i) = " " THEN py_lstrip(s, i + 1) ELSE i

\* ast.literal_eval(s): one literal, then only white space.
literal_eval(s) ==
    LET r == py_value(s, py_lstrip(s, 1))
    IN  IF ~r.ok
        THEN Raise(IF r.msg = <<"unhashable type">> THEN "TypeError" ELSE "SyntaxError", r.msg)
        ELSE IF py_ws(s, r.end) <= Len(s) THEN Raise("SyntaxError", <<"invalid syntax">>)
        ELSE Ok(r.val)

\* PyConverter.deserialise(s).
PyDeserialise(s) == literal_eval(s)

\* ------------------------------------------------------------ YamlConverter

\* YamlConverter.deserialise(s): "raise NotImplemented" raises a TypeError,
\* NotImplemented being no exception.
YamlDeserialise(s) == Raise("TypeError", <<"exceptions must derive from BaseException">>)

\* YamlConverter.serialise(d).
YamlSerialise(d) == Raise("TypeError", <<"exceptions must derive from BaseException">>)

\* ------------------------------------------------------- handler dispatch

\* cls.deserialise(s) for a handler class.
Deserialise(cls, s) ==
    CASE cls = "PyConverter"   -> PyDeserialise(s)
      [] cls = "CsvConverter"  -> CsvDeserialise(s)
      [] cls = "JsonConverter" -> JsonDeserialise(s)
      [] cls = "YamlConverter" -> YamlDeserialise(s)

\* cls.serialise(d) for a handler class.
Serialise(cls, d) ==
    CASE cls = "PyConverter"   -> PySerialise(d)
      [] cls = "CsvConverter"  -> CsvSerialise(d)
      [] cls = "JsonConverter" -> JsonSerialise(d)
      [] cls = "YamlConverter" -> YamlSerialise(d)

\* ------------------------------------------------------------------ files

\* os.linesep on a POSIX system.
linesep == <<LF>>

\* What file.read() returns for a file opened in text mode with the default
\* newline=None: CR LF and a lone CR are read as LF.
RECURSIVE ReadText(_)
ReadText(content) ==
    IF content = <<>> THEN <<>>
    ELSE IF Head(content) = CR
    THEN <<LF>> \o ReadText(IF Len(content) > 1 /\ content[2] = LF
                            THEN Tail(Tail(content)) ELSE Tail(content))
    ELSE <<Head(content)>> \o ReadText(Tail(content))

\* What file.write(s) stores for a file opened in text mode with the default
\* newline=None: each LF is written as os.linesep.
RECURSIVE WriteText(_)
WriteText(s) ==
    IF s = <<>> THEN <<>>
    ELSE (IF Head(s) = LF THEN linesep ELSE <<Head(s)>>) \o WriteText(Tail(s))

\* The end of a "with open(...)" block that does not close the file.
with_exit_leak(hs, h) == hs

\* The end of a "with open(...)" block, reached normally or by an exception:
\* the file is closed.
with_exit(hs, h) == hs \ {h}

\* ------------------------------------------------------- do_conversion

\* An order of do_conversion's statements that reads the input before the
\* output handler is looked up.
step_after_read_first(step) ==
    CASE step = "get_deserialiser" -> "open_in"
      [] step = "open_in"          -> "read"
      [] step = "read"             -> "close_in"
      [] step = "close_in"         -> "get_serialiser"
      [] step = "get_serialiser"   -> "deserialise"
      [] step = "deserialise"      -> "serialise"
      [] step = "serialise"        -> "open_out"
      [] step = "open_out"         -> "write"
      [] step = "write"            -> "close_out"
      [] step = "close_out"        -> "return"

\* An order of do_conversion's statements that opens the output file before
\* the data is serialised.
step_after_open_first(step) ==
    CASE step = "get_deserialiser" -> "get_serialiser"
      [] step = "get_serialiser"   -> "open_in"
      [] step = "open_in"          -> "read"
      [] step = "read"             -> "close_in"
      [] step = "close_in"         -> "deserialise"
      [] step = "deserialise"      -> "open_out"
      [] step = "open_out"         -> "serialise"
      [] step = "serialise"        -> "write"
      [] step = "write"            -> "close_out"
      [] step = "close_out"        -> "return"

\* The order of do_conversion's statements (lines 108 to 121).
step_after(step) ==
    CASE step = "get_deserialiser" -> "get_serialiser"
      [] step = "get_serialiser"   -> "open_in"
      [] step = "open_in"          -> "read"
      [] step = "read"             -> "close_in"
      [] step = "close_in"         -> "deserialise"
      [] step = "deserialise"      -> "serialise"
      [] step = "serialise"        -> "open_out"
      [] step = "open_out"         -> "write"
      [] step = "write"            -> "close_out"
      [] step = "close_out"        -> "return"

\* The exception exc leaves do_conversion from the statement at pc.
Raised(exc) ==
    /\ result' = exc
    /\ pc' = "raised"
    /\ raised_at' = pc

\* convert.do_conversion(input_file, output_file) is called with the next
\* arguments of the script.  A call that raised ends the script.
Call ==
    /\ pc \in {"idle", "returned"}
    /\ script # <<>>
    /\ input_file' = script[1][1]
    /\ output_file' = script[1][2]
    /\ script' = Tail(script)
    /\ deserialise' = Unset
    /\ serialise' = Unset
    /\ input_string' = NoText
    /\ data' = NoData
    /\ output_string' = NoText
    /\ result' = NoResult
    /\ raised_at' = Unset
    /\ fs0' = fs
    /\ log' = <<>>
    /\ pc' = "get_deserialiser"
    /\ UNCHANGED <<fs, handles>>

\* line 108: deserialise = self.get_converter(input_file).deserialise
GetDeserialiser ==
    /\ pc = "get_deserialiser"
    /\ LET r == get_converter(input_file)
       IN  IF r.ok
           THEN /\ deserialise' = r.val
                /\ pc' = step_after(pc)
                /\ UNCHANGED <<result, raised_at>>
           ELSE /\ Raised(r)
                /\ UNCHANGED deserialise
    /\ UNCHANGED <<fs, script, input_file, output_file, serialise, input_string,
                   data, output_string, handles, fs0, log>>

\* line 110: serialise = self.get_converter(output_file).serialise
GetSerialiser ==
    /\ pc = "get_serialiser"
    /\ LET r == get_converter(output_file)
       IN  IF r.ok
           THEN /\ serialise' = r.val
                /\ pc' = step_after(pc)
                /\ UNCHANGED <<result, raised_at>>
           ELSE /\ Raised(r)
                /\ UNCHANGED serialise
    /\ UNCHANGED <<fs, script, input_file, output_file, deserialise, input_string,
                   data, output_string, handles, fs0, log>>

\* line 112: open(input_file).  It raises when the file does not exist, and
\* may raise for a reason of the system's (fault).
OpenInput ==
    /\ pc = "open_in"
    /\ \E fault \in BOOLEAN :
        IF fs[input_file] = NoFile
        THEN /\ Raised(Raise("FileNotFoundError", input_file))
             /\ UNCHANGED <<handles, log>>
        ELSE IF fault
        THEN /\ Raised(Raise("OSError", input_file))
             /\ UNCHANGED <<handles, log>>
        ELSE /\ handles' = handles \cup {"in"}
             /\ log' = Append(log, <<"open", input_file, "r">>)
             /\ pc' = step_after(pc)
             /\ UNCHANGED <<result, raised_at>>
    /\ UNCHANGED <<fs, script, input_file, output_file, deserialise, serialise,
                   input_string, data, output_string, fs0>>

\* line 113: input_string = file.read().  When the read raises, the with
\* block closes the file on the way out.
ReadInput ==
    /\ pc = "read"
    /\ \E fault \in BOOLEAN :
        IF fault
        THEN /\ Raised(Raise("OSError", input_file))
             /\ handles' = with_exit(handles, "in")
             /\ UNCHANGED <<input_string, log>>
        ELSE /\ input_string' = ReadText(fs[input_file])
             /\ log' = Append(log, <<"read", input_file>>)
             /\ pc' = step_after(pc)
             /\ UNCHANGED <<result, raised_at, handles>>
    /\ UNCHANGED <<fs, script, input_file, output_file, deserialise, serialise,
                   data, output_string, fs0>>

\* lines 112-113: the with block of the input file ends.
CloseInput ==
    /\ pc = "close_in"
    /\ handles' = with_exit(handles, "in")
    /\ pc' = step_after(pc)
    /\ UNCHANGED <<fs, script, input_file, output_file, deserialise, serialise,
                   input_string, data, output_string, result, raised_at, fs0, log>>

\* line 115: data = deserialise(input_string)
DeserialiseInput ==
    /\ pc = "deserialise"
    /\ LET r == Deserialise(deserialise, input_string)
       IN  IF r.ok
           THEN /\ data' = r.val
                /\ pc' = step_after(pc)
                /\ UNCHANGED <<result, raised_at>>
           ELSE /\ Raised(r)
                /\ UNCHANGED data
    /\ UNCHANGED <<fs, script, input_file, output_file, deserialise, serialise,
                   input_string, output_string, handles, fs0, log>>

\* line 117: output_string = serialise(data)
SerialiseOutput ==
    /\ pc = "serialise"
    /\ LET r == Serialise(serialise, data)
       IN  IF r.ok
           THEN /\ output_string' = r.val
                /\ pc' = step_after(pc)
                /\ UNCHANGED <<result, raised_at>>
           ELSE /\ Raised(r)
                /\ UNCHANGED output_string
    /\ UNCHANGED <<fs, script, input_file, output_file, deserialise, serialise,
                   input_string, data, handles, fs0, log>>

\* line 119: open(output_file, "w"): the file is created, or cut to no
\* content; the open may raise for a reason of the system's (fault), and
\* then the file is as it was.
OpenOutput ==
    /\ pc = "open_out"
    /\ \E fault \in BOOLEAN :
        IF fault
        THEN /\ Raised(Raise("OSError", output_file))
             /\ UNCHANGED <<fs, handles, log>>
        ELSE /\ fs' = [fs EXCEPT ![output_file] = <<>>]
             /\ handles' = handles \cup {"out"}
             /\ log' = Append(log, <<"open", output_file, "w">>)
             /\ pc' = step_after(pc)
             /\ UNCHANGED <<result, raised_at>>
    /\ UNCHANGED <<script, input_file, output_file, deserialise, serialise,
                   input_string, data, output_string, fs0>>

\* line 120: write_file.write(output_string).  When the write raises, the
\* with block closes the file on the way out, and the file stays cut.
WriteOutput ==
    /\ pc = "write"
    /\ \E fault \in BOOLEAN :
        IF fault
        THEN /\ Raised(Raise("OSError", output_file))
             /\ handles' = with_exit(handles, "out")
             /\ UNCHANGED <<fs, log>>
        ELSE /\ fs' = [fs EXCEPT ![output_file] = WriteText(output_string)]
             /\ log' = Append(log, <<"write", output_file>>)
             /\ pc' = step_after(pc)
             /\ UNCHANGED <<result, raised_at, handles>>
    /\ UNCHANGED <<script, input_file, output_file, deserialise, serialise,
                   input_string, data, output_string, fs0>>

\* lines 119-120: the with block of the output file ends.
CloseOutput ==
    /\ pc = "close_out"
    /\ handles' = with_exit(handles, "out")
    /\ pc' = step_after(pc)
    /\ UNCHANGED <<fs, script, input_file, output_file, deserialise, serialise,
                   input_string, data, output_string, result, raised_at, fs0, log>>

\* line 121: return data
Return ==
    /\ pc = "return"
    /\ result' = Ok(data)
    /\ pc' = "returned"
    /\ UNCHANGED <<fs, script, input_file, output_file, deserialise, serialise,
                   input_string, data, output_string, handles, raised_at, fs0, log>>

Next ==
    \/ Call
    \/ GetDeserialiser
    \/ GetSerialiser
    \/ OpenInput
    \/ ReadInput
    \/ CloseInput
    \/ DeserialiseInput
    \/ SerialiseOutput
    \/ OpenOutput
    \/ WriteOutput
    \/ CloseOutput
    \/ Return

\* -------------------------------------------------------- generated inputs

Ext_xyz == <<".", "x", "y", "z">>

\* The rows with the keys of one of keylists, in its order, and values of values.
RECURSIVE RowsOver(_, _)
RowsOver(kl, values) ==
    IF kl = <<>> THEN {<<>>}
    ELSE {<<<<Str(Head(kl)), Str(v)>>>> \o rest :
            v \in values, rest \in RowsOver(Tail(kl), values)}

Rows(keylists, values) ==
    UNION {{Dict(d) : d \in RowsOver(kl, values)} : kl \in keylists}

\* The lists of at most n elements of a set.
RECURSIVE ListsUpTo(_, _)
ListsUpTo(set, n) ==
    IF n = 0 THEN {<<>>}
    ELSE LET shorter == ListsUpTo(set, n - 1)
         IN  shorter \cup {Append(l, x) : l \in {m \in shorter : Len(m) = n - 1}, x \in set}

\* The Records of at most MaxRows rows.
Records(keylists, values) ==
    {List(l) : l \in ListsUpTo(Rows(keylists, values), MaxRows)}

\* The Rows of a Record all have the keys of the first, in any order.
SameKeys(r) ==
    \A i \in 1..Len(r.l) : Range(Keys(r.l[i])) = Range(Keys(r.l[1]))

\* A text with at most MaxCut characters cut from its end.
Cuts(text) == {Take(text, Len(text) - n) : n \in 0..(IF MaxCut < Len(text) THEN MaxCut ELSE Len(text))}

Handlers == {"PyConverter", "CsvConverter", "JsonConverter"}

\* The texts a handler writes for the Records of a set, whole and cut.
Texts(cls, records) ==
    UNION {Cuts(Serialise(cls, r).val) : r \in {x \in records : Serialise(cls, x).ok}}

\* ----------------------------------------------- Spec: one do_conversion

KeysA == <<<<"a">>>>
KeysAB == <<<<"a">>, <<"b">>>>

\* Records for the calls of Spec: no row, rows of one or two keys, the keys
\* of a later row being those of the first or not.
SpecRecords == Records({KeysA, KeysAB}, {<<"x">>})

File_i(ext) == <<"i">> \o ext
File_o(ext) == <<"o">> \o ext
File_missing == <<"m">> \o Ext_csv

\* The input files, each written in the format of a handler.
SourceFormat ==
    (File_i(Ext_py) :> "PyConverter") @@ (File_i(Ext_csv) :> "CsvConverter")
        @@ (File_i(Ext_json) :> "JsonConverter") @@ (File_i(Ext_xyz) :> "CsvConverter")
        @@ (File_i(Ext_yaml) :> "JsonConverter")

OutputFiles == {File_o(e) : e \in {Ext_py, Ext_csv, Ext_json, Ext_xyz, Ext_yaml}}

Paths == DOMAIN SourceFormat \cup OutputFiles \cup {File_missing}

OldText == <<"o", "l", "d">>

\* One input file exists; the output files exist, with old content, or not.
\* The call names that input file or a file that does not exist, and an
\* output file or the input file itself.
Init ==
    /\ \E src \in DOMAIN SourceFormat, old \in {NoFile, OldText} :
        /\ \E text \in Texts(SourceFormat[src], SpecRecords) :
            fs = [p \in Paths |-> IF p = src THEN text
                                  ELSE IF p \in OutputFiles THEN old ELSE NoFile]
        /\ \E in \in {src, File_missing}, out \in OutputFiles \cup {src} :
            script = <<<<in, out>>>>
    /\ pc = "idle"
    /\ input_file = NoText
    /\ output_file = NoText
    /\ deserialise = Unset
    /\ serialise = Unset
    /\ input_string = NoText
    /\ data = NoData
    /\ output_string = NoText
    /\ handles = {}
    /\ result = NoResult
    /\ raised_at = Unset
    /\ fs0 = fs
    /\ log = <<>>

Spec == Init /\ [][Next]_vars

\* The statements of do_conversion that come before the output file is opened.
BeforeWrite ==
    {"get_deserialiser", "get_serialiser", "open_in", "read", "close_in",
     "deserialise", "serialise"}

\* The extension of a file name as the registry's contract words it: the
\* text from the last dot to the end, the empty text when there is no dot.
LastDotExt(p) == IF RFind(p, ".") = 0 THEN <<>> ELSE Drop(p, RFind(p, ".") - 1)

Unsupported(p) == LastDotExt(p) \notin get_supported_extensions

\* C1: when do_conversion raises from a statement before the output file is
\* opened for writing, the file at output_file is as it was before the call:
\* not created, not cut, not changed.
C1_NoPartialOutput ==
    (pc = "raised" /\ raised_at \in BeforeWrite)
        => fs[output_file] = fs0[output_file]

\* C1 witness: malformed JSON input fails to decode while the output file
\* exists with its old content.
C1_Witness ==
    /\ pc = "raised"
    /\ raised_at = "deserialise"
    /\ result.exc.type = "JSONDecodeError"
    /\ fs0[output_file] = OldText
    /\ fs[output_file] = OldText

\* C6: once the input has been deserialised to a Record without rows and the
\* output handler is the CSV handler, serialise raises, returns no text, and
\* the call ends without opening or writing the output file.
C6_EmptyRecordNotWritten ==
    (pc # "idle" /\ pc # "serialise" /\ serialise = "CsvConverter" /\ data = List(<<>>))
        => /\ pc = "raised"
           /\ raised_at = "serialise"
           /\ ~result.ok
           /\ output_string = NoText
           /\ fs = fs0
           /\ \A i \in 1..Len(log) : log[i][1] # "write" /\ log[i] # <<"open", output_file, "w">>

\* C6 witness: a JSON or Python input that is the empty list, converted to
\* CSV, with the output file absent before and after.
C6_Witness ==
    /\ pc = "raised"
    /\ raised_at = "serialise"
    /\ serialise = "CsvConverter"
    /\ data = List(<<>>)
    /\ result.exc.type = "IndexError"
    /\ input_file # output_file
    /\ fs[output_file] = NoFile

\* C9: when the extension of the input path or of the output path is not
\* supported, do_conversion raises the unrecognised-file-type error of
\* get_converter, whether or not the input file exists, having opened, read
\* and written no file.
C9_ResolvedBeforeAnyFile ==
    (pc \notin {"idle", "get_deserialiser", "get_serialiser"}
        /\ (Unsupported(input_file) \/ Unsupported(output_file)))
        => /\ pc = "raised"
           /\ result = Raise("Exception",
                  UnrecognisedMsg(IF Unsupported(input_file) THEN input_file ELSE output_file))
           /\ log = <<>>
           /\ handles = {}
           /\ fs = fs0

\* C9 witness: the output extension is unsupported and the input file, whose
\* extension is supported, does not exist.
C9_Witness ==
    /\ pc = "raised"
    /\ raised_at = "get_serialiser"
    /\ ~Unsupported(input_file)
    /\ Unsupported(output_file)
    /\ fs[input_file] = NoFile

\* C10: no handle is open when the call has returned or raised; the input
\* handle is open only around the read and closed before deserialisation,
\* the output handle only around the write, and never both at once.
C10_HandlesScoped ==
    /\ pc \in {"idle", "returned", "raised"} => handles = {}
    /\ "in" \in handles => pc \in {"read", "close_in"}
    /\ "out" \in handles => pc \in {"write", "close_out"}
    /\ handles # {"in", "out"}

\* C10 witness: the write raised with the output handle open, and the handle
\* is closed.
C10_Witness ==
    /\ pc = "raised"
    /\ raised_at = "write"
    /\ <<"open", output_file, "w">> \in Range(log)
    /\ handles = {}

\* ------------------------------------- SpecResolve: get_converter alone

Dirs == {<<>>, <<"d", "/">>, <<"d", ".", "x", "/">>, <<"d">> \o Ext_csv \o <<"/">>}

Stems == {<<>>, <<"d", "a", "t", "a">>, <<"d", "a", "t", "a", ".">>, <<"a", ".", "b">>}

Exts ==
    {<<>>, Ext_py, Ext_csv, Ext_json, Ext_yaml, Ext_yml, Ext_xyz,
     <<".", "C", "S", "V">>, <<".", "J", "s", "o", "n">>, <<".", "c", "s", "v", "x">>,
     <<"c", "s", "v">>, Ext_csv \o <<".">>, Ext_csv \o <<"/">>}

\* n dots
RECURSIVE Dots(_)
Dots(n) == IF n = 0 THEN <<>> ELSE <<".">> \o Dots(n - 1)

\* File names: a directory or none, dots in front, a stem, an extension.
Filenames ==
    {dir \o Dots(n) \o stem \o ext :
        dir \in Dirs, n \in 0..MaxLeadingDots, stem \in Stems, ext \in Exts}

\* What the call of a handler's deserialise is given in SpecResolve.
EmptyListText == <<"[", "]">>

InitResolve ==
    /\ input_file \in Filenames
    /\ pc = "get_converter"
    /\ fs = <<>>
    /\ script = <<>>
    /\ output_file = NoText
    /\ deserialise = Unset
    /\ serialise = Unset
    /\ input_string = EmptyListText
    /\ data = NoData
    /\ output_string = NoText
    /\ handles = {}
    /\ result = NoResult
    /\ raised_at = Unset
    /\ fs0 = <<>>
    /\ log = <<>>

\* convert.get_converter(input_file)
GetConverterCall ==
    /\ pc = "get_converter"
    /\ result' = get_converter(input_file)
    /\ pc' = "resolved"
    /\ UNCHANGED <<fs, script, input_file, output_file, deserialise, serialise,
                   input_string, data, output_string, handles, raised_at, fs0, log>>

\* The handler that get_converter returned is used: its deserialise is called.
HandlerCall ==
    /\ pc = "resolved"
    /\ result.ok
    /\ deserialise' = result.val
    /\ LET r == Deserialise(result.val, input_string)
       IN  /\ data' = IF r.ok THEN r.val ELSE NoData
           /\ raised_at' = IF r.ok THEN Unset ELSE r.exc.type
    /\ pc' = "called"
    /\ UNCHANGED <<fs, script, input_file, output_file, serialise, input_string,
                   output_string, handles, result, fs0, log>>

NextResolve ==
    \/ GetConverterCall
    \/ HandlerCall

SpecResolve == InitResolve /\ [][NextResolve]_vars

\* C2: for a file name whose extension, the text from the last dot on, is
\* not a key of the mapping as it is written (case matters), get_converter
\* raises the error made for it and not the KeyError of the lookup, and the
\* message ends with the file name, so with its extension.
C2_UnsupportedExtensionFails ==
    (pc # "get_converter" /\ Unsupported(input_file))
        => /\ ~result.ok
           /\ result.exc.type = "Exception"
           /\ result.exc.type # "KeyError"
           /\ EndsWith(result.exc.msg, input_file)
           /\ EndsWith(result.exc.msg, LastDotExt(input_file))
           /\ Head(result.exc.msg) = "Unrecognised file type: "

\* C2 witness: data.CSV, whose extension differs from a key only in case.
C2_Witness ==
    /\ pc = "resolved"
    /\ input_file = <<"d", "a", "t", "a", ".", "C", "S", "V">>
    /\ ~result.ok
    /\ result.exc.type = "Exception"

IsYamlName(p) == EndsWith(p, Ext_yaml) \/ EndsWith(p, Ext_yml)

\* C7 as stated: get_converter returns the YAML handler for every file name
\* ending in .yaml or .yml.
C7_YamlResolvable ==
    (pc # "get_converter" /\ IsYamlName(input_file))
        => result.ok /\ result.val = "YamlConverter"

\* C7 as amended: the YAML handler is not registered; for a file name ending
\* in .yaml or .yml get_converter raises the same unrecognised-file-type
\* error as for any extension outside the mapping, and no handler that
\* get_converter returns is the YAML handler.
C7_YamlNotRegistered ==
    /\ (pc # "get_converter" /\ IsYamlName(input_file))
        => result = Raise("Exception", UnrecognisedMsg(input_file))
    /\ (pc # "get_converter" /\ result.ok) => result.val \in Handlers
    /\ pc = "called" => deserialise # "YamlConverter"

\* C7 witness: data.yaml has been looked up and was not recognised.
C7_Witness ==
    /\ pc = "resolved"
    /\ input_file = <<"d", "a", "t", "a">> \o Ext_yaml
    /\ ~result.ok
    /\ result.exc.msg = UnrecognisedMsg(input_file)

\* --------------------------------- SpecCsv: CsvConverter's two functions

\* Values with the characters CSV quotes for, and the quotes of the other
\* two formats.
RichValues ==
    {<<>>, <<"x">>, <<"x", ",", "y">>, <<"x", DQ, "y">>, <<"x", LF, "y">>,
     <<"x", CR, "y">>, <<SQ, BS>>}

\* Records of text values: without rows, with rows of the same keys, and
\* with rows whose keys differ.
CsvRecords == Records({KeysA, KeysAB}, RichValues)

InitCsv ==
    /\ data \in CsvRecords
    /\ pc = "csv_serialise"
    /\ fs = <<>>
    /\ script = <<>>
    /\ input_file = NoText
    /\ output_file = NoText
    /\ deserialise = Unset
    /\ serialise = Unset
    /\ input_string = NoText
    /\ output_string = NoText
    /\ handles = {}
    /\ result = NoResult
    /\ raised_at = Unset
    /\ fs0 = <<>>
    /\ log = <<>>

\* output_string = CsvConverter.serialise(data)
CsvSerialiseCall ==
    /\ pc = "csv_serialise"
    /\ LET r == CsvSerialise(data)
       IN  IF r.ok
           THEN /\ output_string' = r.val
                /\ pc' = "csv_deserialise"
                /\ UNCHANGED <<result, raised_at>>
           ELSE /\ Raised(r)
                /\ UNCHANGED output_string
    /\ UNCHANGED <<fs, script, input_file, output_file, deserialise, serialise,
                   input_string, data, handles, fs0, log>>

\* CsvConverter.deserialise(output_string)
CsvDeserialiseCall ==
    /\ pc = "csv_deserialise"
    /\ result' = CsvDeserialise(output_string)
    /\ pc' = "returned"
    /\ UNCHANGED <<fs, script, input_file, output_file, deserialise, serialise,
                   input_string, data, output_string, handles, raised_at, fs0, log>>

NextCsv ==
    \/ CsvSerialiseCall
    \/ CsvDeserialiseCall

SpecCsv == InitCsv /\ [][NextCsv]_vars

\* Two Records are equal as the round trip means it: as many rows, each row
\* with the keys of the header in the header's order, each value the same.
SameRecord(got, r) ==
    /\ IsList(got)
    /\ Len(got.l) = Len(r.l)
    /\ \A i \in 1..Len(r.l) :
        /\ IsDict(got.l[i])
        /\ Keys(got.l[i]) = Keys(r.l[1])
        /\ \A k \in Range(Keys(r.l[i])) : Get(got.l[i], k) = Get(r.l[i], k)

\* C3 as stated: for a Record with at least one row, the rows having the
\* same keys and text values, deserialise(serialise(r)) is r.
C3_CsvRoundTrip ==
    (pc # "csv_serialise" /\ data.l # <<>> /\ SameKeys(data))
        => /\ pc # "raised"
           /\ pc = "returned" => result.ok /\ SameRecord(result.val, data)

\* C5 as stated: serialise raises, and returns no text, for a Record in
\* which the keys of some row differ from the keys of the first row.
C5_DifferentKeysRejected ==
    (pc # "csv_serialise" /\ data.l # <<>> /\ ~SameKeys(data))
        => /\ pc = "raised"
           /\ output_string = NoText

\* ------------------------ SpecSame: do_conversion to the same format

InitSame ==
    /\ \E cls \in Handlers :
        \E r \in {x \in CsvRecords : x.l # <<>> /\ SameKeys(x)} :
            \E in \in {p \in DOMAIN SourceFormat : get_converter(p) = Ok(cls)} :
                /\ fs = [p \in Paths |-> IF p = in THEN Serialise(cls, r).val ELSE NoFile]
                /\ script = <<<<in, File_o(LastDotExt(in))>>>>
    /\ pc = "idle"
    /\ input_file = NoText
    /\ output_file = NoText
    /\ deserialise = Unset
    /\ serialise = Unset
    /\ input_string = NoText
    /\ data = NoData
    /\ output_string = NoText
    /\ handles = {}
    /\ result = NoResult
    /\ raised_at = Unset
    /\ fs0 = fs
    /\ log = <<>>

SpecSame == InitSame /\ [][Next]_vars

\* The statements that the system can fail.
SystemSteps == {"open_in", "read", "open_out", "write"}

\* C8 as stated: the input file holding a handler's serialisation of a
\* Record, a do_conversion to an output path of the same extension raises
\* only when the system fails it, and the output file it writes has the
\* content of the input file.
C8_SameFormatIdentity ==
    /\ pc = "raised" => raised_at \in SystemSteps
    /\ pc = "returned" => fs[output_file] = fs0[input_file]

\* ------------- SpecChain: A.csv to B.json, then B.json to C.csv

File_A == <<"A">> \o Ext_csv
File_B == <<"B">> \o Ext_json
File_C == <<"C">> \o Ext_csv

InitChain ==
    /\ \E r \in {x \in CsvRecords : x.l # <<>> /\ SameKeys(x)} :
        fs = (File_A :> CsvSerialise(r).val) @@ (File_B :> NoFile) @@ (File_C :> NoFile)
    /\ script = <<<<File_A, File_B>>, <<File_B, File_C>>>>
    /\ pc = "idle"
    /\ input_file = NoText
    /\ output_file = NoText
    /\ deserialise = Unset
    /\ serialise = Unset
    /\ input_string = NoText
    /\ data = NoData
    /\ output_string = NoText
    /\ handles = {}
    /\ result = NoResult
    /\ raised_at = Unset
    /\ fs0 = fs
    /\ log = <<>>

SpecChain == InitChain /\ [][Next]_vars

\* C4 as stated: A.csv holding a header and at least one row of text values,
\* after do_conversion(A.csv, B.json) and do_conversion(B.json, C.csv) the
\* content of C.csv is the content of A.csv, and neither call raises unless
\* the system fails it.
C4_CrossFormatFidelity ==
    /\ pc = "raised" => raised_at \in SystemSteps
    /\ (pc = "returned" /\ script = <<>>) => fs[File_C] = fs[File_A]

====
